---- MODULE Spec2Model ----
(***************************************************************************)
(* A model of app.py: the video transcription pipeline.                    *)
(*                                                                         *)
(* Units.  Every quantity the program holds in seconds (video.duration,    *)
(* the chunk offset start / 1000.0, segment.start, segment.end) is held    *)
(* here as a whole number of milliseconds, i.e. as the exact decimal with  *)
(* three fractional digits; int(seconds) is then the division by 1000.     *)
(* File sizes are bytes.  Money is thousandths of a dollar.                *)
(* Strings the program builds are sequences of one-character strings.      *)
(***************************************************************************)
EXTENDS Integers, Sequences, FiniteSets, TLC

VARIABLES
    pc,                 \* position of the run in main / split_audio_by_size
    result,             \* how the run ended ("" while running)
    st_errors,          \* messages given to st.error
    api_key,            \* os.getenv("OPENAI_API_KEY") is set
    TEST_MODE_DURATION, \* app.py:20, in ms
    files,              \* names of the temporary files on disk
    video_duration, test_mode, duration, estimated_cost,
    audio_file,         \* name returned by extract_audio (NoFile before)
    extracted,          \* ms of audio extract_audio wrote
    chunks, total_duration_ms, start, chunk_duration_ms, end_ms,
    temp_chunk, chunk_size,      \* locals of split_audio_by_size
    emitted,            \* per appended chunk: its file and the [start, end) encoded
    audio_chunks, transcriptions, idx, data,
    submitted,          \* the chunks transcribe_audio was called for, by position
    row_times,          \* per row: the start_time, end_time it was built from
    csv_writes,         \* one entry per save_to_csv call: the rows written
    caller,             \* who called the function under check
    arg, ret            \* argument / value of a function called on its own

vars == << pc, result, st_errors, api_key, TEST_MODE_DURATION, files,
           video_duration, test_mode, duration, estimated_cost, audio_file,
           extracted, chunks, total_duration_ms, start, chunk_duration_ms,
           end_ms, temp_chunk, chunk_size, emitted, audio_chunks,
           transcriptions, idx, submitted, data, row_times, csv_writes,
           caller, arg, ret >>

mainVars == << video_duration, test_mode, duration, estimated_cost >>
splitVars == << chunks, total_duration_ms, start, chunk_duration_ms, end_ms,
                temp_chunk, chunk_size, emitted >>
loopVars == << audio_chunks, transcriptions, idx, submitted >>
outVars == << data, row_times, csv_writes >>
envVars == << api_key, TEST_MODE_DURATION, caller, arg, ret >>

----------------------------------------------------------------------------
(* Program constants *)

MAX_CHUNK_SIZE_MB == 24
BytesPerMB == 1048576
InitialWindowMs == 60000
MinChunkDurationMs == 10000
PricePerMinute == 6
DefaultTestModeSeconds == 600

(* Bounds of the model *)

MaxVideoMs == 25000       \* longest video of a whole run
MaxAudioMs == 61000       \* longest audio given to split_audio_by_size alone
SizeSlack == 0            \* measured sizes: Cap - SizeSlack .. Cap + 1 + SizeSlack
MaxSegs == 2              \* segments per reply
MaxCostMinutes == 3       \* estimate_cost inputs reach MaxCostMinutes minutes
MaxFormatMinutes == 101   \* format_time inputs reach MaxFormatMinutes minutes

\* no file name: the names are 0, 1, 2, ...
NoFile == 0 - 1
Min(a, b) == IF a <= b THEN a ELSE b

----------------------------------------------------------------------------
(* Pure functions *)

DigitChars == << "0", "1", "2", "3", "4", "5", "6", "7", "8", "9" >>

RECURSIVE Decimal(_)
\* str(n) for n >= 0
Decimal(n) ==
    IF n < 10 THEN << DigitChars[n + 1] >>
    ELSE Append(Decimal(n \div 10), DigitChars[(n % 10) + 1])

\* f"{n:d}": the variant without the padding
Pad02dUnpadded(n) == Decimal(n)

\* f"{n:02d}" for n >= 0: at least two digits, padded with zeros
Pad02d(n) ==
    LET d == Decimal(n) IN IF Len(d) < 2 THEN << "0" >> \o d ELSE d

\* int(x) of a non-negative number of seconds held in ms
IntSeconds(ms) == ms \div 1000

\* app.py:75-77
format_time(seconds) ==
    LET s == IntSeconds(seconds)
        minutes == s \div 60
        secs == s % 60
    IN  Pad02d(minutes) \o << ":" >> \o Pad02d(secs)

\* the variant that rounds down: duration_seconds // 60
BilledMinutesFloor(ms) == ms \div 60000

\* math.ceil(duration_seconds / 60) for duration_seconds >= 0 held in ms
BilledMinutes(ms) == (ms + 59999) \div 60000

\* app.py:98-102
estimate_cost(duration_seconds) ==
    BilledMinutes(duration_seconds) * PricePerMinute

Whitespace == { " ", "\t", "\n" }

RECURSIVE LStrip(_)
LStrip(s) ==
    IF Len(s) > 0 /\ Head(s) \in Whitespace THEN LStrip(Tail(s)) ELSE s

RECURSIVE RStrip(_)
RStrip(s) ==
    IF Len(s) > 0 /\ s[Len(s)] \in Whitespace
    THEN RStrip(SubSeq(s, 1, Len(s) - 1)) ELSE s

\* str.strip()
Strip(s) == RStrip(LStrip(s))

\* the variant that forgets the chunk's offset
StartTimeNoOffset(segment, time_offset) == segment.start

\* app.py:83
StartTime(segment, time_offset) == time_offset + segment.start

\* app.py:84
EndTime(segment, time_offset) == time_offset + segment.end

\* app.py:83-87, the body of the inner loop for one segment: the row, and
\* with it the start_time and end_time its label was formatted from
RowOf(segment, time_offset) ==
    [ Timestamp |-> format_time(StartTime(segment, time_offset))
                    \o << " ", "-", " " >>
                    \o format_time(EndTime(segment, time_offset)),
      Text |-> Strip(segment.text),
      start_time |-> StartTime(segment, time_offset),
      end_time |-> EndTime(segment, time_offset) ]

RECURSIVE SegmentRowsDropEmpty(_, _)
\* the variant that skips a segment whose trimmed text is empty
SegmentRowsDropEmpty(segments, time_offset) ==
    IF segments = << >> THEN << >>
    ELSE (IF Strip(Head(segments).text) = << >> THEN << >>
          ELSE << RowOf(Head(segments), time_offset) >>)
         \o SegmentRowsDropEmpty(Tail(segments), time_offset)

RECURSIVE SegmentRows(_, _)
\* app.py:82-87 for one (transcription, time_offset)
SegmentRows(segments, time_offset) ==
    IF segments = << >> THEN << >>
    ELSE << RowOf(Head(segments), time_offset) >>
         \o SegmentRows(Tail(segments), time_offset)

RECURSIVE process_transcription(_)
\* app.py:79-88
process_transcription(ts) ==
    IF ts = << >> THEN << >>
    ELSE SegmentRows(Head(ts)[1], Head(ts)[2]) \o process_transcription(Tail(ts))

\* the dicts appended at app.py:87
DataOf(rows) ==
    [ i \in 1..Len(rows) |->
        [ Timestamp |-> rows[i].Timestamp, Text |-> rows[i].Text ] ]

\* the (start_time, end_time) of app.py:83-84, row by row
TimesOf(rows) ==
    [ i \in 1..Len(rows) |-> << rows[i].start_time, rows[i].end_time >> ]

----------------------------------------------------------------------------
(* Inputs *)

VideoDurations == { 0, 5000, MaxVideoMs }
AudioLengths == { 0, 1, 9999, 30000, MaxAudioMs }
TestModeDurations == { 0, 10000, DefaultTestModeSeconds * 1000 }

Cap == MAX_CHUNK_SIZE_MB * BytesPerMB
Sizes == (Cap - SizeSlack) .. (Cap + 1 + SizeSlack)

SegmentPool ==
    { [ start |-> 0,     end |-> 2500,  text |-> << " ", "h", "i", "\n" >> ],
      [ start |-> 12000, end |-> 12000, text |-> << " ", " " >> ] }

Replies == UNION { [ 1..n -> SegmentPool ] : n \in 0..MaxSegs }

\* a name tempfile.NamedTemporaryFile can hand out: none of a file on disk
FreshName ==
    CHOOSE n \in 0..Cardinality(files) :
        n \notin files /\ \A m \in 0..(n - 1) : m \in files

FormatInputs ==
    { m * 60000 + s * 1000 + f :
        m \in { 0, 1, 9, 10, 59, 60, 99, 100, MaxFormatMinutes },
        s \in { 0, 9, 10, 59 },
        f \in { 0, 1, 999 } }

CostInputs ==
    { m * 60000 + f : m \in 0..MaxCostMinutes, f \in { 0, 1, 1000, 59999 } }

CannotSplitMsg == "Cannot split audio into small enough chunks."
FailedSplitMsg == "Failed to split audio into appropriate chunks."
NoKeyMsg == "OpenAI API key not found. Please set it in your .env file."
BadPathMsg == "Please provide a valid video file path."

----------------------------------------------------------------------------
(* Initial states *)

NoRun ==
    /\ result = ""
    /\ st_errors = { }
    /\ video_duration = 0 /\ test_mode = FALSE /\ duration = 0
    /\ estimated_cost = 0
    /\ chunks = << >> /\ total_duration_ms = 0 /\ start = 0
    /\ chunk_duration_ms = 0 /\ end_ms = 0 /\ temp_chunk = NoFile
    /\ chunk_size = 0 /\ emitted = << >>
    /\ audio_chunks = << >> /\ transcriptions = << >> /\ idx = 0
    /\ submitted = << >>
    /\ data = << >> /\ row_times = << >> /\ csv_writes = << >>
    /\ ret = << >>

\* a run of main (app.py:104), with the configuration read at app.py:15-20
Init ==
    /\ NoRun
    /\ pc = "main" /\ caller = "main" /\ arg = << >>
    /\ api_key \in BOOLEAN
    /\ TEST_MODE_DURATION \in TestModeDurations
    /\ files = { } /\ audio_file = NoFile /\ extracted = 0

----------------------------------------------------------------------------
(* main, app.py:104-163 *)

Finish(how) == pc' = "done" /\ result' = how

\* app.py:15: OpenAI(api_key=None) raises when the variable is not set at
\* all, so the script ends before main is called
ClientInitFails ==
    /\ pc = "main" /\ ~api_key
    /\ Finish("missing_credential")
    /\ UNCHANGED << st_errors, files, audio_file, extracted, mainVars,
                    splitVars, loopVars, outVars, envVars >>

\* the variant that reports the missing key and goes on
MainNoKeyNoReturn ==
    /\ pc = "main" /\ ~api_key
    /\ st_errors' = st_errors \cup { NoKeyMsg }
    /\ \E d \in VideoDurations :
        /\ video_duration' = d /\ duration' = d
        /\ estimated_cost' = estimate_cost(d)
    /\ pc' = "button"
    /\ UNCHANGED << result, test_mode, files, audio_file, extracted,
                    splitVars, loopVars, outVars, envVars >>

\* app.py:107-109: the variable is set but empty
MainNoKey ==
    /\ pc = "main" /\ ~api_key
    /\ st_errors' = st_errors \cup { NoKeyMsg }
    /\ Finish("missing_credential")
    /\ UNCHANGED << files, audio_file, extracted, mainVars, splitVars,
                    loopVars, outVars, envVars >>

\* app.py:111-114, 162-163: the path is empty or names no file
MainBadPath ==
    /\ pc = "main" /\ api_key
    /\ st_errors' = st_errors \cup { BadPathMsg }
    /\ Finish("invalid_path")
    /\ UNCHANGED << files, audio_file, extracted, mainVars, splitVars,
                    loopVars, outVars, envVars >>

\* app.py:118-122
ProcessedDuration(tm, d) == IF tm THEN Min(TEST_MODE_DURATION, d) ELSE d

\* app.py:111-125: a valid path; the duration is probed, the cost estimated
MainProbe ==
    /\ pc = "main" /\ api_key
    /\ \E d \in VideoDurations, tm \in BOOLEAN :
        /\ video_duration' = d
        /\ test_mode' = tm
        /\ duration' = ProcessedDuration(tm, d)
        /\ estimated_cost' = estimate_cost(ProcessedDuration(tm, d))
    /\ pc' = "button"
    /\ UNCHANGED << result, st_errors, files, audio_file, extracted,
                    splitVars, loopVars, outVars, envVars >>

\* app.py:127: the button is not pressed in this run
MainIdle ==
    /\ pc = "button"
    /\ Finish("idle")
    /\ UNCHANGED << st_errors, files, audio_file, extracted, mainVars,
                    splitVars, loopVars, outVars, envVars >>

\* app.py:26-37: "if duration:" takes the subclip only for a non-zero duration
ExtractedMs(whole, d) == IF d # 0 THEN d ELSE whole

\* app.py:127-130
MainExtract ==
    /\ pc = "button"
    /\ audio_file' = FreshName
    /\ files' = files \cup { FreshName }
    /\ extracted' = ExtractedMs(video_duration, duration)
    /\ pc' = "split_enter"
    /\ UNCHANGED << result, st_errors, mainVars, splitVars, loopVars,
                    outVars, envVars >>

----------------------------------------------------------------------------
(* split_audio_by_size, app.py:39-63 *)

\* app.py:40-43
SplitEnter ==
    /\ pc = "split_enter"
    /\ total_duration_ms' = extracted
    /\ chunks' = << >>
    /\ start' = 0
    /\ pc' = "outer"
    /\ UNCHANGED << result, st_errors, files, audio_file, extracted, mainVars,
                    chunk_duration_ms, end_ms, temp_chunk, chunk_size,
                    emitted, loopVars, outVars, envVars >>

\* app.py:44-45
SplitOuter ==
    /\ pc = "outer" /\ start < total_duration_ms
    /\ chunk_duration_ms' = InitialWindowMs
    /\ pc' = "attempt"
    /\ UNCHANGED << result, st_errors, files, audio_file, extracted, mainVars,
                    chunks, total_duration_ms, start, end_ms, temp_chunk,
                    chunk_size, emitted, loopVars, outVars, envVars >>

\* the variant without the clamp to the end of the audio
ChunkEndUnclamped(s, w, total) == s + w

\* app.py:47
ChunkEnd(s, w, total) == Min(s + w, total)

\* app.py:47-51: encode [start, end) to a new file and measure it
SplitEncode ==
    /\ pc = "attempt"
    /\ end_ms' = ChunkEnd(start, chunk_duration_ms, total_duration_ms)
    /\ temp_chunk' = FreshName
    /\ files' = files \cup { FreshName }
    /\ chunk_size' \in Sizes
    /\ pc' = "measured"
    /\ UNCHANGED << result, st_errors, audio_file, extracted, mainVars,
                    chunks, total_duration_ms, start, chunk_duration_ms,
                    emitted, loopVars, outVars, envVars >>

\* the variant that accepts every attempt
FitsAlways(size, max_size_mb) == TRUE

\* app.py:51-52: getsize / (1024 * 1024) <= max_size_mb; the division by a
\* power of two is exact, so the test is the one on bytes
Fits(size, max_size_mb) == size <= max_size_mb * BytesPerMB

\* the variant that advances by the first window tried
AdvanceInitial(s, w) == s + InitialWindowMs

\* app.py:62
Advance(s, w) == s + w

\* app.py:52-54, 62
SplitAccept ==
    /\ pc = "measured" /\ Fits(chunk_size, MAX_CHUNK_SIZE_MB)
    /\ chunks' = Append(chunks, << temp_chunk, start >>)
    /\ emitted' = Append(emitted, [ name |-> temp_chunk, start |-> start,
                                    end |-> end_ms ])
    /\ start' = Advance(start, chunk_duration_ms)
    /\ end_ms' = 0 /\ temp_chunk' = NoFile /\ chunk_size' = 0
    /\ pc' = "outer"
    /\ UNCHANGED << result, st_errors, files, audio_file, extracted, mainVars,
                    total_duration_ms, chunk_duration_ms, loopVars, outVars,
                    envVars >>

\* the variant that does not shrink the window
ShrinkNot(w) == w

\* app.py:56: int(chunk_duration_ms * 0.9); on 0..200000 the float product
\* truncates to the integer floor(9 w / 10)
Shrink(w) == (w * 9) \div 10

\* the function's frame is gone: its locals hold nothing any more
SplitLeave ==
    /\ chunks' = << >> /\ total_duration_ms' = 0 /\ start' = 0
    /\ chunk_duration_ms' = 0 /\ end_ms' = 0 /\ temp_chunk' = NoFile
    /\ chunk_size' = 0

SplitHandBack(value) ==
    IF caller = "main"
    THEN /\ audio_chunks' = value /\ pc' = "after_split"
         /\ UNCHANGED << result, ret >>
    ELSE /\ ret' = value /\ Finish("returned")
         /\ UNCHANGED audio_chunks

\* the variant with a floor of one second
BelowFloorOfOneSecond(w) == w < 1000

\* app.py:59
BelowFloor(w) == w < MinChunkDurationMs

\* the variant that leaves the rejected attempt's file behind
SplitRejectRetryNoUnlink ==
    /\ pc = "measured" /\ ~Fits(chunk_size, MAX_CHUNK_SIZE_MB)
    /\ ~BelowFloor(Shrink(chunk_duration_ms))
    /\ chunk_duration_ms' = Shrink(chunk_duration_ms)
    /\ end_ms' = 0 /\ temp_chunk' = NoFile /\ chunk_size' = 0
    /\ pc' = "attempt"
    /\ UNCHANGED << result, st_errors, files, audio_file, extracted, mainVars,
                    chunks, total_duration_ms, start, emitted, loopVars,
                    outVars, envVars >>

\* app.py:55-59: oversize, the shrunk window is still at least the floor
SplitRejectRetry ==
    /\ pc = "measured" /\ ~Fits(chunk_size, MAX_CHUNK_SIZE_MB)
    /\ ~BelowFloor(Shrink(chunk_duration_ms))
    /\ chunk_duration_ms' = Shrink(chunk_duration_ms)
    /\ files' = files \ { temp_chunk }
    /\ end_ms' = 0 /\ temp_chunk' = NoFile /\ chunk_size' = 0
    /\ pc' = "attempt"
    /\ UNCHANGED << result, st_errors, audio_file, extracted, mainVars,
                    chunks, total_duration_ms, start, emitted, loopVars,
                    outVars, envVars >>

\* app.py:55-61: oversize, the shrunk window is below the floor
SplitRejectAbort ==
    /\ pc = "measured" /\ ~Fits(chunk_size, MAX_CHUNK_SIZE_MB)
    /\ BelowFloor(Shrink(chunk_duration_ms))
    /\ files' = files \ { temp_chunk }
    /\ st_errors' = st_errors \cup { CannotSplitMsg }
    /\ SplitLeave
    /\ SplitHandBack(<< >>)
    /\ UNCHANGED << audio_file, extracted, mainVars, emitted,
                    transcriptions, idx, submitted, outVars, api_key,
                    TEST_MODE_DURATION, caller, arg >>

\* app.py:44 (false), 63
SplitReturn ==
    /\ pc = "outer" /\ ~(start < total_duration_ms)
    /\ SplitLeave
    /\ SplitHandBack(chunks)
    /\ UNCHANGED << st_errors, files, audio_file, extracted, mainVars,
                    emitted, transcriptions, idx, submitted, outVars,
                    api_key,
                    TEST_MODE_DURATION, caller, arg >>

Split ==
    \/ SplitEnter \/ SplitOuter \/ SplitEncode \/ SplitAccept
    \/ SplitRejectRetry \/ SplitRejectAbort \/ SplitReturn

----------------------------------------------------------------------------
(* main, continued *)

\* app.py:134-136
MainSplitFailed ==
    /\ pc = "after_split" /\ audio_chunks = << >>
    /\ st_errors' = st_errors \cup { FailedSplitMsg }
    /\ Finish("split_failed")
    /\ UNCHANGED << files, audio_file, extracted, mainVars, splitVars,
                    loopVars, outVars, envVars >>

\* app.py:134, 138-139
MainStartLoop ==
    /\ pc = "after_split" /\ audio_chunks # << >>
    /\ transcriptions' = << >>
    /\ idx' = 0
    /\ pc' = "loop"
    /\ UNCHANGED << result, st_errors, files, audio_file, extracted, mainVars,
                    splitVars, audio_chunks, submitted, outVars, envVars >>

\* app.py:65-73
transcribe_audio(reply, time_offset) == << reply, time_offset >>

\* the variant that assembles each reply as soon as it is in
MainTranscribeAssembling ==
    /\ pc = "loop" /\ idx < Len(audio_chunks)
    /\ \E reply \in Replies :
        /\ transcriptions' =
            Append(transcriptions,
                   transcribe_audio(reply, audio_chunks[idx + 1][2]))
        /\ data' = data \o DataOf(SegmentRows(reply, audio_chunks[idx + 1][2]))
    /\ submitted' = Append(submitted, idx + 1)
    /\ files' = files \ { audio_chunks[idx + 1][1] }
    /\ idx' = idx + 1
    /\ UNCHANGED << pc, result, st_errors, audio_file, extracted, mainVars,
                    splitVars, audio_chunks, row_times, csv_writes, envVars >>

\* app.py:140-145: the request for chunk idx is answered
MainTranscribe ==
    /\ pc = "loop" /\ idx < Len(audio_chunks)
    /\ \E reply \in Replies :
        transcriptions' =
            Append(transcriptions,
                   transcribe_audio(reply, audio_chunks[idx + 1][2]))
    /\ submitted' = Append(submitted, idx + 1)
    /\ files' = files \ { audio_chunks[idx + 1][1] }
    /\ idx' = idx + 1
    /\ UNCHANGED << pc, result, st_errors, audio_file, extracted, mainVars,
                    splitVars, audio_chunks, outVars, envVars >>

\* the variant that swallows the exception and goes on to the next chunk
MainTranscribeFailsSwallowed ==
    /\ pc = "loop" /\ idx < Len(audio_chunks)
    /\ submitted' = Append(submitted, idx + 1)
    /\ idx' = idx + 1
    /\ UNCHANGED << pc, result, st_errors, files, audio_file, extracted,
                    mainVars, splitVars, audio_chunks, transcriptions,
                    outVars, envVars >>

\* the variant that asks again for the same chunk after a failure
MainTranscribeFailsRetried ==
    /\ pc = "loop" /\ idx < Len(audio_chunks)
    /\ submitted' = Append(submitted, idx + 1)
    /\ UNCHANGED << pc, result, st_errors, files, audio_file, extracted,
                    mainVars, splitVars, audio_chunks, transcriptions, idx,
                    outVars, envVars >>

\* app.py:142: the request for chunk idx raises; nothing in main catches it
MainTranscribeFails ==
    /\ pc = "loop" /\ idx < Len(audio_chunks)
    /\ submitted' = Append(submitted, idx + 1)
    /\ Finish("transcription_failed")
    /\ UNCHANGED << st_errors, files, audio_file, extracted, mainVars,
                    splitVars, audio_chunks, transcriptions, idx, outVars,
                    envVars >>

\* app.py:140 (exhausted), 147
MainRemoveAudio ==
    /\ pc = "loop" /\ idx = Len(audio_chunks)
    /\ files' = files \ { audio_file }
    /\ pc' = "assemble"
    /\ UNCHANGED << result, st_errors, audio_file, extracted, mainVars,
                    splitVars, loopVars, outVars, envVars >>

\* app.py:149-150
MainAssemble ==
    /\ pc = "assemble"
    /\ data' = DataOf(process_transcription(transcriptions))
    /\ row_times' = TimesOf(process_transcription(transcriptions))
    /\ pc' = "save"
    /\ UNCHANGED << result, st_errors, files, audio_file, extracted, mainVars,
                    splitVars, loopVars, csv_writes, envVars >>

\* app.py:90-96
save_to_csv(written, rows) == Append(written, rows)

\* app.py:152-161
MainSave ==
    /\ pc = "save"
    /\ csv_writes' = save_to_csv(csv_writes, data)
    /\ Finish("success")
    /\ UNCHANGED << st_errors, files, audio_file, extracted, mainVars,
                    splitVars, loopVars, data, row_times, envVars >>

Next ==
    \/ ClientInitFails
    \/ MainNoKey \/ MainBadPath \/ MainProbe \/ MainIdle \/ MainExtract
    \/ Split
    \/ MainSplitFailed \/ MainStartLoop \/ MainTranscribe
    \/ MainTranscribeFails \/ MainRemoveAudio \/ MainAssemble \/ MainSave

Spec == Init /\ [][Next]_vars

----------------------------------------------------------------------------
(* split_audio_by_size called on its own, on an audio file of any length *)

InitSplit ==
    /\ NoRun
    /\ pc = "split_enter" /\ caller = "split" /\ arg = << >>
    /\ api_key = TRUE
    /\ TEST_MODE_DURATION = DefaultTestModeSeconds * 1000
    /\ files = { 0 } /\ audio_file = 0
    /\ extracted \in AudioLengths

SpecSplit == InitSplit /\ [][Split]_vars

\* the function is sequential code: whenever a step of it can be taken, the
\* interpreter takes it
SpecSplitFair == SpecSplit /\ WF_vars(Split)

----------------------------------------------------------------------------
(* format_time and estimate_cost called on their own *)

InitCall(name, args) ==
    /\ NoRun
    /\ pc = "call" /\ caller = name /\ arg \in args
    /\ api_key = TRUE
    /\ TEST_MODE_DURATION = DefaultTestModeSeconds * 1000
    /\ files = { } /\ audio_file = NoFile /\ extracted = 0

Return(value) ==
    /\ ret' = value
    /\ Finish("returned")
    /\ UNCHANGED << st_errors, files, audio_file, extracted, mainVars,
                    splitVars, loopVars, outVars, api_key,
                    TEST_MODE_DURATION, caller, arg >>

InitFormat == InitCall("format_time", FormatInputs)

\* app.py:75-77
FormatCall ==
    /\ pc = "call" /\ caller = "format_time"
    /\ Return(format_time(arg))

SpecFormat == InitFormat /\ [][FormatCall]_vars

InitCost == InitCall("estimate_cost", CostInputs \X CostInputs)

\* app.py:98-102, on two durations
CostCall ==
    /\ pc = "call" /\ caller = "estimate_cost"
    /\ Return(<< estimate_cost(arg[1]), estimate_cost(arg[2]) >>)

SpecCost == InitCost /\ [][CostCall]_vars

----------------------------------------------------------------------------
(* Properties *)

Infeasible == CannotSplitMsg \in st_errors
Last(q) == q[Len(q)]

\* split_audio_by_size, called on its own, has returned its list of chunks
SplitReturned == caller = "split" /\ pc = "done" /\ ~Infeasible

\* C1: when split_audio_by_size returns successfully on audio of length
\* total_ms > 0, the chunks it returns are tagged with their start offsets,
\* start in strictly increasing order, the first at 0, each one where the
\* previous one ended, and the last one ends at total_ms (checked under
\* SpecSplit, whatever the sizes measured).
C1_Partition ==
    (SplitReturned /\ extracted > 0) =>
        /\ Len(emitted) >= 1
        /\ Len(ret) = Len(emitted)
        /\ \A i \in 1..Len(emitted) :
            /\ ret[i] = << emitted[i].name, emitted[i].start >>
            /\ emitted[i].start < emitted[i].end
        /\ emitted[1].start = 0
        /\ \A i \in 1..(Len(emitted) - 1) :
            /\ emitted[i + 1].start = emitted[i].end
            /\ emitted[i].start < emitted[i + 1].start
        /\ Last(emitted).end = extracted

\* C1 witness: a successful return with at least three chunks, the first of
\* them cut with a shrunk window
C1_Witness ==
    /\ SplitReturned /\ extracted = MaxAudioMs
    /\ Len(ret) >= 3
    /\ emitted[1].end < InitialWindowMs

\* C2: a chunk is appended to the result only from the attempt just measured,
\* and only when its measured on-disk size is at most max_size_mb x 1 048 576
\* bytes; an oversize attempt leaves the result without a new chunk.
C2_SizeBound ==
    [][ /\ (Len(chunks') = Len(chunks) + 1) =>
            /\ pc = "measured"
            /\ chunk_size <= MAX_CHUNK_SIZE_MB * 1048576
            /\ Last(chunks')[1] = temp_chunk
            /\ temp_chunk \in files'
        /\ (pc = "measured" /\ chunk_size > MAX_CHUNK_SIZE_MB * 1048576) =>
            /\ Len(chunks') <= Len(chunks)
            /\ temp_chunk \notin files' ]_vars

\* C2 witness: an attempt measured at exactly the cap, after an earlier chunk
\* and after a rejected attempt for this one
C2_Witness ==
    /\ pc = "measured" /\ chunk_size = MAX_CHUNK_SIZE_MB * 1048576
    /\ Len(chunks) >= 1
    /\ chunk_duration_ms < InitialWindowMs

\* C3: after any run (success, chunking infeasible, a failed transcription)
\* no temporary chunk file and no extracted audio file remains on disk.
C3_Cleanup == (pc = "done") => (files = { })

\* C4: every emitted chunk other than the last of the sequence lasts at
\* least 10 000 ms.
C4_Floor ==
    \A i \in 1..(Len(emitted) - 1) :
        emitted[i].end - emitted[i].start >= 10000

\* C4 witness: a returned sequence whose last chunk is shorter than the floor
\* and whose first chunk was cut with the smallest window
C4_Witness ==
    /\ SplitReturned /\ Len(emitted) >= 2
    /\ emitted[1].end - emitted[1].start < 10010
    /\ Last(emitted).end - Last(emitted).start < 10000

RunAborted ==
    result \in { "missing_credential", "invalid_path", "idle", "split_failed",
                 "transcription_failed" }

\* C5: save_to_csv is called exactly once on a successful run, after every
\* chunk has been transcribed and the rows assembled, with those rows; it is
\* never called on a run that aborts or is still under way.
C5_SinkOnce ==
    /\ Len(csv_writes) <= 1
    /\ (result = "success") <=> (Len(csv_writes) = 1)
    /\ RunAborted => csv_writes = << >>
    /\ csv_writes # << >> =>
        /\ st_errors = { }
        /\ audio_chunks # << >>
        /\ idx = Len(audio_chunks)
        /\ Len(transcriptions) = Len(audio_chunks)
        /\ csv_writes[1] = data

\* C5 witness: a successful run over two chunks that wrote rows
C5_Witness ==
    /\ pc = "done" /\ result = "success"
    /\ Len(audio_chunks) >= 2 /\ Len(csv_writes) = 1
    /\ Len(csv_writes[1]) >= 2

\* process_transcription has run on the replies of this run
Assembled == pc = "save" \/ result = "success"

SegmentsOf(k) == transcriptions[k][1]

RepliesOrdered ==
    \A k \in 1..Len(transcriptions) :
        \A j \in 1..(Len(SegmentsOf(k)) - 1) :
            SegmentsOf(k)[j].start <= SegmentsOf(k)[j + 1].start

\* every segment starts within the audio of the chunk it was heard in
SegmentsWithinChunk ==
    \A k \in 1..Len(transcriptions) :
        \A j \in 1..Len(SegmentsOf(k)) :
            SegmentsOf(k)[j].start <= emitted[k].end - emitted[k].start

MonotoneStarts ==
    \A r \in 1..(Len(row_times) - 1) : row_times[r][1] <= row_times[r + 1][1]

\* C6 as claimed: with each reply listing its segments in non-decreasing
\* start order, the absolute start seconds of the transcript are
\* non-decreasing from each row to the next, also across chunk boundaries.
C6_MonotoneAsClaimed == (Assembled /\ RepliesOrdered) => MonotoneStarts

\* C6 amended: the same, for replies in which moreover no segment starts
\* later than the duration of its chunk.
C6_Monotone ==
    (Assembled /\ RepliesOrdered /\ SegmentsWithinChunk) => MonotoneStarts

\* C6 witness: two chunks, the first answered with a segment that starts
\* 12 s into it, the second with a segment at its very start
C6_Witness ==
    /\ Assembled /\ RepliesOrdered /\ SegmentsWithinChunk
    /\ Len(transcriptions) >= 2
    /\ \E j \in 1..Len(SegmentsOf(1)) : SegmentsOf(1)[j].start = 12000
    /\ \E j \in 1..Len(SegmentsOf(2)) : SegmentsOf(2)[j].start = 0

RECURSIVE RowsBefore(_)
\* the number of segments in the replies before reply k
RowsBefore(k) ==
    IF k <= 1 THEN 0 ELSE RowsBefore(k - 1) + Len(SegmentsOf(k - 1))

NonBlank(s) == { i \in 1..Len(s) : s[i] \notin Whitespace }

\* t is s without its leading and trailing whitespace
IsTrimOf(t, s) ==
    IF NonBlank(s) = { } THEN t = << >>
    ELSE LET lo == CHOOSE i \in NonBlank(s) : \A j \in NonBlank(s) : i <= j
             hi == CHOOSE i \in NonBlank(s) : \A j \in NonBlank(s) : i >= j
         IN  t = SubSeq(s, lo, hi)

\* C7: process_transcription yields one row per segment of every reply, in
\* reply order and within a reply in segment order; the row of a segment is
\* built from start = offset of its chunk + segment.start and end = that
\* offset + segment.end, and carries the trimmed text, also when it is empty.
C7_Rows ==
    Assembled =>
        /\ Len(data) = RowsBefore(Len(transcriptions) + 1)
        /\ Len(row_times) = Len(data)
        /\ \A k \in 1..Len(transcriptions) :
            /\ transcriptions[k][2] = audio_chunks[k][2]
            /\ \A j \in 1..Len(SegmentsOf(k)) :
                LET seg == SegmentsOf(k)[j]
                    r == RowsBefore(k) + j
                IN  /\ row_times[r] = << audio_chunks[k][2] + seg.start,
                                         audio_chunks[k][2] + seg.end >>
                    /\ IsTrimOf(data[r].Text, seg.text)

\* C7 witness: the second chunk's reply has two segments, the first of them
\* of whitespace only, and its row is there with an empty text
C7_Witness ==
    /\ Assembled /\ Len(transcriptions) >= 2
    /\ Len(SegmentsOf(1)) = 1
    /\ Len(SegmentsOf(2)) = 2
    /\ NonBlank(SegmentsOf(2)[1].text) = { }
    /\ NonBlank(SegmentsOf(2)[2].text) # { }
    /\ data[2].Text = << >>
    /\ Len(data) = 3

IsDigit(c) == \E d \in 1..10 : DigitChars[d] = c
DigitValue(c) == (CHOOSE d \in 1..10 : DigitChars[d] = c) - 1

RECURSIVE ParseDecimal(_)
\* the number a sequence of digits writes
ParseDecimal(ds) ==
    IF ds = << >> THEN 0
    ELSE 10 * ParseDecimal(SubSeq(ds, 1, Len(ds) - 1)) + DigitValue(Last(ds))

FormatReturned == caller = "format_time" /\ pc = "done"

\* C8: for s >= 0 whole seconds format_time(s) is s div 60 written with at
\* least two digits (zero-padded), a colon, and s mod 60 written with exactly
\* two digits; for a non-negative real x, format_time(x) = format_time(floor x);
\* from 3600 s on the minutes field is 60 or more (no wrap to hours).
C8_FormatLaw ==
    FormatReturned =>
        LET s == arg \div 1000
            n == Len(ret)
            minutes == SubSeq(ret, 1, n - 3)
            secs == SubSeq(ret, n - 1, n)
        IN  /\ n >= 5
            /\ ret[n - 2] = ":"
            /\ \A i \in (1..n) \ { n - 2 } : IsDigit(ret[i])
            /\ ParseDecimal(minutes) = s \div 60
            /\ ParseDecimal(secs) = s % 60
            /\ (n > 5) => (ret[1] # "0")
            /\ ret = format_time(s * 1000)
            /\ (s >= 3600) => ParseDecimal(minutes) >= 60

\* C8 witness: a fractional input past 100 minutes: three minute digits
C8_Witness ==
    /\ FormatReturned
    /\ arg >= 6000000 /\ arg % 1000 # 0
    /\ Len(ret) = 6

CostReturned == caller = "estimate_cost" /\ pc = "done"

\* the least whole number of minutes that covers d ms
CeilMinutes(d) ==
    CHOOSE m \in 0..(d + 1) :
        /\ m * 60000 >= d
        /\ \A k \in 0..(m - 1) : k * 60000 < d

\* C9: estimate_cost(d) is ceil(d / 60) minutes times the price per minute;
\* it is monotone in d; estimate(0) = 0, estimate(60) is one price per
\* minute and estimate(61) is two.
C9_Cost ==
    CostReturned =>
        /\ \A i \in 1..2 :
            /\ ret[i] = CeilMinutes(arg[i]) * PricePerMinute
            /\ (arg[i] = 0) => (ret[i] = 0)
            /\ (arg[i] = 60000) => (ret[i] = PricePerMinute)
            /\ (arg[i] = 61000) => (ret[i] = 2 * PricePerMinute)
        /\ (arg[1] <= arg[2]) => (ret[1] <= ret[2])

\* C9 witness: the estimates of 60 s and of 61 s
C9_Witness ==
    /\ CostReturned
    /\ arg = << 60000, 61000 >>
    /\ ret[1] < ret[2]

InSplit == pc \in { "split_enter", "outer", "attempt", "measured" }

\* C10 as claimed: the encoding of chunk i+1 does not start until chunk i has
\* been transcribed (and its reply assembled).
C10_InterleavedAsClaimed ==
    (pc = "attempt" /\ Len(chunks) >= 1) =>
        Len(transcriptions) >= Len(chunks)

\* C10 amended: the run works phase by phase, one chunk at a time: every
\* chunk is encoded before the first transcription request is made, the
\* requests are made one at a time in chunk order, and the replies are
\* assembled into rows only after the last request has completed.
C10_Phases ==
    /\ InSplit => (transcriptions = << >> /\ idx = 0 /\ data = << >>)
    /\ (pc = "loop") =>
        /\ Len(transcriptions) = idx /\ idx <= Len(audio_chunks)
        /\ data = << >> /\ row_times = << >>
    /\ \A k \in 1..Len(transcriptions) :
        transcriptions[k][2] = audio_chunks[k][2]
    /\ (pc \in { "assemble", "save" } \/ data # << >>) =>
        Len(transcriptions) = Len(audio_chunks)

\* C10 witness: two chunks are encoded, the first one's reply (with a
\* segment) is in, the second one's request is still to be made, no row yet
C10_Witness ==
    /\ pc = "loop" /\ idx = 1 /\ Len(audio_chunks) >= 2
    /\ Len(SegmentsOf(1)) >= 1
    /\ data = << >>

\* C11: each chunk file is deleted right after its own transcription call
\* completes, whether the call succeeded or failed, before the next chunk's
\* transcription begins: no chunk whose call has completed is still on disk.
C11_DeletedAfterCall ==
    /\ \A k \in 1..idx : audio_chunks[k][1] \notin files
    /\ (result = "transcription_failed") =>
            audio_chunks[idx + 1][1] \notin files

\* C12: without OPENAI_API_KEY the run ends with the missing-credential
\* error before any media is touched: no duration probe, no extraction, no
\* chunking, no transcription request, no output.
C12_NoKeyNoMedia ==
    ~api_key =>
        /\ pc \in { "main", "done" }
        /\ (pc = "done") => (result = "missing_credential")
        /\ files = { } /\ audio_file = NoFile /\ extracted = 0
        /\ video_duration = 0 /\ duration = 0 /\ estimated_cost = 0
        /\ emitted = << >> /\ audio_chunks = << >>
        /\ transcriptions = << >> /\ csv_writes = << >>

\* C12 witness: the run has ended on the missing key, the message shown
C12_Witness ==
    /\ ~api_key /\ pc = "done" /\ result = "missing_credential"
    /\ NoKeyMsg \in st_errors

\* the processed window of the glossary, in ms
ProcessedWindow ==
    IF test_mode
    THEN (IF TEST_MODE_DURATION <= video_duration
          THEN TEST_MODE_DURATION ELSE video_duration)
    ELSE video_duration

\* C13: the processed window is min(TEST_MODE_DURATION, total_duration) in
\* test mode and total_duration otherwise: that is the duration given to the
\* cost estimator and the length of audio the extractor writes.
C13_ProcessedWindow ==
    (caller = "main" /\ audio_file # NoFile) =>
        /\ duration = ProcessedWindow
        /\ estimated_cost = estimate_cost(ProcessedWindow)
        /\ extracted = ProcessedWindow

\* C14: whatever the audio length and the sizes measured,
\* split_audio_by_size terminates (returning or aborting): every accepted
\* chunk moves the cursor start strictly forward, also when start + window
\* reaches total_ms, and every rejected attempt strictly shrinks the window,
\* which never goes below the floor, so the attempts per chunk are bounded.
C14_Terminates ==
    /\ [][ /\ (Len(chunks') = Len(chunks) + 1) => (start' > start)
           /\ (pc = "outer" /\ pc' = "attempt") => (start' = start)
           /\ (pc = "measured" /\ pc' = "attempt") =>
                /\ chunk_duration_ms' < chunk_duration_ms
                /\ chunk_duration_ms' >= 10000
                /\ start' = start ]_vars
    /\ <>(pc = "done")

\* C14 witness: the function has returned after a last chunk whose window
\* reached past the end of the audio, the first chunk cut after rejections
C14_Witness ==
    /\ SplitReturned /\ Len(emitted) >= 2
    /\ emitted[1].end < InitialWindowMs
    /\ Last(emitted).end - Last(emitted).start < 10000
    /\ extracted = 30000

\* the windows a chunk can be tried with: 60 000 and its successive
\* nine-tenths, rounded down, as long as they are at least 10 000
RECURSIVE WindowsFrom(_)
WindowsFrom(w) ==
    IF w < 10000 THEN { } ELSE { w } \cup WindowsFrom((9 * w) \div 10)

\* C15: for each chunk the window starts at 60 000 ms whatever the previous
\* chunk was accepted with; after each oversize attempt it becomes
\* floor(window x 0.9); the first attempt that fits the cap is the one
\* accepted; and the cursor then advances by exactly the window of that
\* attempt, unclamped, while the chunk itself ends at min(start + window,
\* total_ms).
C15_WindowSequence ==
    [][ /\ (pc = "outer" /\ pc' = "attempt") => (chunk_duration_ms' = 60000)
        /\ (pc = "attempt") =>
                /\ chunk_duration_ms \in WindowsFrom(60000)
                /\ chunk_duration_ms' = chunk_duration_ms
        /\ (pc = "measured" /\ pc' = "attempt") =>
                /\ chunk_size > MAX_CHUNK_SIZE_MB * 1048576
                /\ 10 * chunk_duration_ms' <= 9 * chunk_duration_ms
                /\ 9 * chunk_duration_ms < 10 * (chunk_duration_ms' + 1)
        /\ (pc = "measured" /\ chunk_size <= MAX_CHUNK_SIZE_MB * 1048576) =>
                /\ Len(chunks') = Len(chunks) + 1
                /\ Last(chunks') = << temp_chunk, start >>
                /\ start' = start + chunk_duration_ms
                /\ chunk_duration_ms' = chunk_duration_ms
                /\ Last(emitted').end =
                        IF start + chunk_duration_ms <= total_duration_ms
                        THEN start + chunk_duration_ms
                        ELSE total_duration_ms
                /\ pc' = "outer" ]_vars

\* C15 witness: a second chunk accepted with a shrunk window that reached
\* past the end of the audio: the cursor is beyond total_ms
C15_Witness ==
    /\ pc = "outer" /\ Len(chunks) = 2
    /\ chunk_duration_ms \in WindowsFrom(60000) \ { 60000 }
    /\ start > total_duration_ms
    /\ start = chunks[2][2] + chunk_duration_ms
    /\ chunks[2][2] < chunk_duration_ms

\* C16: split_audio_by_size aborts as infeasible exactly when, after an
\* oversize attempt, floor(window x 0.9) is below 10 000 ms; so no attempt is
\* ever encoded with a window below 10 000 ms; after the abort the function
\* has returned no chunks, no chunk of the run is submitted for
\* transcription, and the run ends (as a failed split).
C16_Infeasible ==
    /\ [][ (CannotSplitMsg \in st_errors' /\ CannotSplitMsg \notin st_errors)
            <=> ( /\ pc = "measured"
                  /\ chunk_size > MAX_CHUNK_SIZE_MB * 1048576
                  /\ (9 * chunk_duration_ms) \div 10 < 10000 ) ]_vars
    /\ []( (pc \in { "attempt", "measured" }) => (chunk_duration_ms >= 10000) )
    /\ []( Infeasible =>
            /\ audio_chunks = << >> /\ ret = << >>
            /\ transcriptions = << >> /\ idx = 0
            /\ data = << >> /\ csv_writes = << >>
            /\ pc \in { "after_split", "done" }
            /\ (pc = "done") => (result = "split_failed") )

\* C16 witness: the run has ended on an abort that came after one chunk had
\* been accepted
C16_Witness ==
    /\ caller = "main" /\ pc = "done" /\ result = "split_failed"
    /\ Infeasible /\ Len(emitted) >= 1

\* C17: chunks are submitted to the transcription service in strictly
\* ascending offset order, each at most once (no retry); after a failed
\* submission no later chunk is submitted; on a successful run there are as
\* many replies as chunks and reply k carries the offset of chunk k.
C17_SubmissionOrder ==
    /\ \A i \in 1..Len(submitted) : submitted[i] = i
    /\ Len(submitted) <= Len(audio_chunks)
    /\ \A k \in 1..(Len(audio_chunks) - 1) :
            audio_chunks[k][2] < audio_chunks[k + 1][2]
    /\ IF result = "transcription_failed"
       THEN pc = "done" /\ Len(submitted) = Len(transcriptions) + 1
       ELSE Len(submitted) = Len(transcriptions)
    /\ (result = "success") =>
            /\ Len(transcriptions) = Len(audio_chunks)
            /\ \A k \in 1..Len(audio_chunks) :
                    transcriptions[k][2] = audio_chunks[k][2]

\* C17 witness: of three chunks the second one's request failed; the third
\* was never submitted
C17_Witness ==
    /\ result = "transcription_failed"
    /\ Len(audio_chunks) = 3
    /\ submitted = << 1, 2 >>
    /\ Len(transcriptions) = 1

\* the files of the chunks appended so far, and the files the function has
\* created that still exist
AcceptedFiles == { emitted[i].name : i \in 1..Len(emitted) }
CreatedFiles == files \ { audio_file }

\* C18: inside split_audio_by_size a rejected attempt's file is deleted
\* before the next attempt begins, so at any moment at most one file exists
\* that is not an accepted chunk (the attempt just measured); and when the
\* function returns successfully, the files it created that still exist are
\* exactly the returned paths, each once.
C18_TempFiles ==
    /\ Cardinality(AcceptedFiles) = Len(emitted)
    /\ AcceptedFiles \subseteq CreatedFiles
    /\ CreatedFiles \ AcceptedFiles =
            IF pc = "measured" THEN { temp_chunk } ELSE { }
    /\ (pc = "measured") => temp_chunk \notin AcceptedFiles
    /\ SplitReturned =>
            /\ Len(ret) = Cardinality(CreatedFiles)
            /\ \A k \in 1..Len(ret) : ret[k][1] \in CreatedFiles
            /\ \A j, k \in 1..Len(ret) : (j # k) => (ret[j][1] # ret[k][1])

\* C18 witness: the function returned two chunks of a 30 s audio, which
\* takes rejected attempts for the first one; the audio and the two chunk
\* files are all that exists
C18_Witness ==
    /\ SplitReturned /\ Len(ret) = 2
    /\ emitted[1].end - emitted[1].start < InitialWindowMs
    /\ emitted[2].end < emitted[1].start + InitialWindowMs
    /\ Cardinality(files) = 3

\* C19 as claimed: split_audio_by_size returns an empty list only when it
\* declared the chunking infeasible (an attempt was oversize and the shrunk
\* window fell below the floor): whenever it does not abort it returns at
\* least one chunk, so main reports "Failed to split audio" only for runs in
\* which an attempt hit the floor.
C19_EmptyOnlyWhenInfeasible ==
    /\ (caller = "split" /\ pc = "done" /\ ret = << >>) => Infeasible
    /\ (pc = "after_split" /\ audio_chunks = << >>) => Infeasible
    /\ (result = "split_failed") => Infeasible

====
